---- MODULE Spec2Model ----
(***************************************************************************)
(* Model of the blog listing widget, js/blog.js (class BlogManager).       *)
(*                                                                         *)
(* Spec    : the widget as the page runs it: construction, init()          *)
(*           (loadPosts, then the three render/setup calls) and the two    *)
(*           click handlers, driven only by the controls that were         *)
(*           rendered.                                                     *)
(* SpecFn  : the query and render methods as functions of the fields of a  *)
(*           BlogManager (the class is exported on window), with the       *)
(*           fields drawn from bounded sets.                               *)
(***************************************************************************)
EXTENDS Integers, Sequences, FiniteSets, TLC

VARIABLES
    pc,               \* position in init(): "constructed", "loaded", "ready", "crashed"; "script" in SpecFn
    response,         \* what fetch(basePath + 'posts.json') produced
    posts,            \* this.posts
    postsPerPage,     \* this.postsPerPage
    currentPage,      \* this.currentPage
    currentCategory,  \* this.currentCategory
    categoryButtons,  \* innerHTML of #blog-categories
    cards,            \* innerHTML of #blog-posts
    pagination,       \* innerHTML of #blog-pagination
    event             \* the last click event dispatched to a listener

vars == <<pc, response, posts, postsPerPage, currentPage, currentCategory,
          categoryButtons, cards, pagination, event>>

----------------------------------------------------------------------------
(* Bounds of the model *)

\* longest manifest whose entries are drawn freely
MaxLen == 3
\* longest manifest of the regular family (entries fixed by position)
MaxFamily == 31
\* largest page size given to the functions in SpecFn
MaxPageSize == 7
\* longest post list given to the functions in SpecFn
MaxFnPosts == 10
\* largest currentPage given to the functions in SpecFn
MaxPageInput == 11

\* constructor: this.postsPerPage = 6
DefaultPostsPerPage == 6

----------------------------------------------------------------------------
(* Data: the manifest's entries *)

\* 'all' is the sentinel of the constructor; the others are free-form categories
AllCategory == "all"

Categories == {"all", "news", "theory"}

\* ISO date strings "yyyy-mm-dd", held as <<yyyy, mm, dd>>
Dates == {<<2023, 12, 31>>, <<2024, 1, 1>>, <<2024, 6, 1>>}

\* a JSON null where a post object is expected
NullEntry == [kind |-> "null", slug |-> 0, category |-> "", date |-> <<0, 0, 0>>]

Post(slug, category, date) ==
    [kind |-> "object", slug |-> slug, category |-> category, date |-> date]

IsNull(e) == e.kind = "null"

HasNull(s) == \E i \in DOMAIN s : IsNull(s[i])

\* new Date("yyyy-mm-dd").getTime(), in days: an ISO date-only string is UTC
\* midnight, so the value is 86400000 times the day number computed here
DateValue(d) ==
    LET y   == IF d[2] <= 2 THEN d[1] - 1 ELSE d[1]
        era == y \div 400
        yoe == y - era * 400
        mp  == IF d[2] > 2 THEN d[2] - 3 ELSE d[2] + 9
        doy == (153 * mp + 2) \div 5 + d[3] - 1
        doe == yoe * 365 + yoe \div 4 - yoe \div 100 + doy
    IN  era * 146097 + doe - 719468

\* variant of Compare with the operands exchanged (ascending order)
CompareAscending(a, b) == DateValue(a.date) - DateValue(b.date)

\* (a, b) => new Date(b.date) - new Date(a.date)
Compare(a, b) == DateValue(b.date) - DateValue(a.date)

\* Array.prototype.sort is stable: an element is moved in front of another
\* only when the comparator says it sorts strictly before it
RECURSIVE InsertStable(_, _)
InsertStable(s, x) ==
    IF s = <<>> \/ Compare(s[Len(s)], x) <= 0
    THEN Append(s, x)
    ELSE Append(InsertStable(SubSeq(s, 1, Len(s) - 1), x), s[Len(s)])

RECURSIVE SortPosts(_)
SortPosts(s) ==
    IF s = <<>> THEN <<>>
    ELSE InsertStable(SortPosts(SubSeq(s, 1, Len(s) - 1)), s[Len(s)])

\* the comparator reads a.date and b.date: it throws a TypeError on null, and
\* sort calls it on every element once the array has two or more
SortThrows(s) == Len(s) >= 2 /\ HasNull(s)

----------------------------------------------------------------------------
(* The manifest: what the fetch of posts.json can produce *)

FreeEntries == {NullEntry} \cup {Post(0, c, d) : c \in Categories, d \in Dates}

\* slugs are unique across a manifest: entry i carries slug i
WithSlugs(f) ==
    [i \in DOMAIN f |-> IF IsNull(f[i]) THEN NullEntry ELSE [f[i] EXCEPT !.slug = i]]

FreeManifests ==
    UNION {{WithSlugs(f) : f \in [1..n -> FreeEntries]} : n \in 0..MaxLen}

Patterns == 1..4

DateList == <<<<2024, 1, 1>>, <<2024, 6, 1>>, <<2023, 12, 31>>>>

CategoryList == <<"all", "news", "theory">>

\* a regular manifest: the category of entry i is fixed by its position and the
\* pattern m, its date cycles through DateList
FamilyPost(i, m) ==
    Post(i,
         IF m = 4 THEN CategoryList[(i % 3) + 1]
         ELSE IF i % m = 0 THEN "news" ELSE "theory",
         DateList[(i % 3) + 1])

FamilyManifest(n, m) == [i \in 1..n |-> FamilyPost(i, m)]

Manifests ==
    FreeManifests \cup
    {FamilyManifest(n, m) : n \in (MaxLen + 1)..MaxFamily, m \in Patterns}

FailureKinds == {"reject", "status", "badjson", "noposts", "notarray"}

\* "reject"   fetch() rejects (network error)
\* "status"   response.ok is false
\* "badjson"  response.json() rejects
\* "noposts"  data.posts is undefined
\* "notarray" data.posts has no sort method
\* "ok"       data.posts is an array
Responses ==
    {[kind |-> k, posts |-> <<>>] : k \in FailureKinds} \cup
    {[kind |-> "ok", posts |-> m] : m \in Manifests}

NoResponse == [kind |-> "none", posts |-> <<>>]

\* the catch block of loadPosts runs
LoadCaught(r) == r.kind \in FailureKinds \/ (r.kind = "ok" /\ SortThrows(r.posts))

\* the value of this.posts when loadPosts returns
LoadedPosts(r) == IF LoadCaught(r) THEN <<>> ELSE SortPosts(r.posts)

----------------------------------------------------------------------------
(* Queries *)

\* Array.from(new Set(xs)): the distinct values in first-insertion order
RECURSIVE SetOrder(_)
SetOrder(xs) ==
    IF xs = <<>> THEN <<>>
    ELSE LET front == SetOrder(SubSeq(xs, 1, Len(xs) - 1))
             x     == xs[Len(xs)]
         IN  IF \E i \in DOMAIN front : front[i] = x THEN front ELSE Append(front, x)

\* getCategories(): ['all', ...Array.from(new Set(posts.map(p => p.category)))]
CategoriesOf(ps) == <<AllCategory>> \o SetOrder([i \in DOMAIN ps |-> ps[i].category])

\* post.category on a null entry is a TypeError
getCategoriesThrows == HasNull(posts)

getCategories == CategoriesOf(posts)

\* variant of FilteredPostsOf with the test negated
FilterKeepsOthers(ps, cat) ==
    IF cat = AllCategory THEN ps
    ELSE SelectSeq(ps, LAMBDA p : p.category # cat)

\* getFilteredPosts()
FilteredPostsOf(ps, cat) ==
    IF cat = AllCategory THEN ps
    ELSE SelectSeq(ps, LAMBDA p : p.category = cat)

getFilteredPosts == FilteredPostsOf(posts, currentCategory)

Min(a, b) == IF a < b THEN a ELSE b

Max(a, b) == IF a > b THEN a ELSE b

\* Array.prototype.slice(start, end) for start, end >= 0 (0-based, end
\* exclusive, both clipped to the length)
Slice(s, start, end) ==
    LET from == Min(start, Len(s))
        to   == Min(end, Len(s))
    IN  IF from >= to THEN <<>> ELSE SubSeq(s, from + 1, to)

\* variant of PaginatedPostsOf whose slice ends one item late
PageOverlapping(ps, cat, pp, cp) ==
    Slice(FilteredPostsOf(ps, cat), (cp - 1) * pp, (cp - 1) * pp + pp + 1)

\* getPaginatedPosts() with currentPage = cp
PaginatedPostsOf(ps, cat, pp, cp) ==
    Slice(FilteredPostsOf(ps, cat), (cp - 1) * pp, (cp - 1) * pp + pp)

getPaginatedPosts == PaginatedPostsOf(posts, currentCategory, postsPerPage, currentPage)

\* variant of TotalPagesOf that rounds down
TotalPagesFloor(ps, cat, pp) == Len(FilteredPostsOf(ps, cat)) \div pp

\* getTotalPages(): Math.ceil(length / postsPerPage)
TotalPagesOf(ps, cat, pp) ==
    LET n == Len(FilteredPostsOf(ps, cat))
    IN  IF n % pp = 0 THEN n \div pp ELSE n \div pp + 1

getTotalPages == TotalPagesOf(posts, currentCategory, postsPerPage)

----------------------------------------------------------------------------
(* Strings of decimal digits: the data-page attribute *)

DigitChars == <<"0", "1", "2", "3", "4", "5", "6", "7", "8", "9">>

RECURSIVE NatToStr(_)
NatToStr(n) ==
    IF n < 10 THEN <<DigitChars[n + 1]>>
    ELSE Append(NatToStr(n \div 10), DigitChars[(n % 10) + 1])

\* `${n}` in a template literal
IntToStr(n) == IF n < 0 THEN <<"-">> \o NatToStr(0 - n) ELSE NatToStr(n)

IsDigit(c) == \E i \in 1..10 : DigitChars[i] = c

DigitValue(c) == (CHOOSE i \in 1..10 : DigitChars[i] = c) - 1

RECURSIVE ParseDigits(_, _)
ParseDigits(s, acc) ==
    IF s = <<>> \/ ~IsDigit(s[1]) THEN acc
    ELSE ParseDigits(Tail(s), acc * 10 + DigitValue(s[1]))

NaN == "NaN"

\* parseInt(s): an optional sign, then the longest run of digits; NaN without one
parseInt(s) ==
    LET neg  == s # <<>> /\ s[1] = "-"
        body == IF s # <<>> /\ (s[1] = "-" \/ s[1] = "+") THEN Tail(s) ELSE s
    IN  IF body = <<>> \/ ~IsDigit(body[1]) THEN NaN
        ELSE IF neg THEN 0 - ParseDigits(body, 0) ELSE ParseDigits(body, 0)

----------------------------------------------------------------------------
(* Rendering: what each render method writes into its container.  The three  *)
(* containers are taken to exist in the page (each render method returns at *)
(* once without one).                                                       *)

\* renderCategories(): one .category-btn per entry of getCategories(); the
\* data-category attribute holds the category as written in the manifest
CategoriesHTML(ps, cat) ==
    LET cs == CategoriesOf(ps)
    IN  [i \in DOMAIN cs |-> [category |-> cs[i], active |-> (cs[i] = cat)]]

\* renderPosts(): one card per post of the page (the "no posts" notice when
\* there is none), each card identified by its slug
CardsHTML(ps, cat, pp, cp) ==
    LET page == PaginatedPostsOf(ps, cat, pp, cp)
    IN  [i \in DOMAIN page |-> page[i].slug]

Control(kind, n, disabled, active) ==
    [kind |-> kind, dataPage |-> IntToStr(n), disabled |-> disabled, active |-> active]

Ellipsis == [kind |-> "ellipsis", dataPage |-> <<>>, disabled |-> FALSE, active |-> FALSE]

\* variant of PageNumberItem that marks every skipped page
EllipsisPerSkippedPage(i, cp, total) ==
    IF i = 1 \/ i = total \/ (i >= cp - 1 /\ i <= cp + 1)
    THEN <<Control("num", i, FALSE, i = cp)>>
    ELSE <<Ellipsis>>

\* the body of the page-number loop of renderPagination for one i
PageNumberItem(i, cp, total) ==
    IF i = 1 \/ i = total \/ (i >= cp - 1 /\ i <= cp + 1)
    THEN <<Control("num", i, FALSE, i = cp)>>
    ELSE IF i = cp - 2 \/ i = cp + 2 THEN <<Ellipsis>>
    ELSE <<>>

\* for (let i = 1; i <= totalPages; i++) { ... }, from i on
RECURSIVE PageNumberLoop(_, _, _)
PageNumberLoop(i, cp, total) ==
    IF i > total THEN <<>>
    ELSE PageNumberItem(i, cp, total) \o PageNumberLoop(i + 1, cp, total)

\* variant of PaginationHTML whose Next button is never disabled
NextNeverDisabled(cp, total) ==
    IF total <= 1 THEN <<>>
    ELSE <<Control("prev", cp - 1, cp = 1, FALSE)>>
         \o PageNumberLoop(1, cp, total)
         \o <<Control("next", cp + 1, FALSE, FALSE)>>

\* renderPagination(): nothing for one page or none, else Previous, the page
\* numbers and Next
PaginationHTML(cp, total) ==
    IF total <= 1 THEN <<>>
    ELSE <<Control("prev", cp - 1, cp = 1, FALSE)>>
         \o PageNumberLoop(1, cp, total)
         \o <<Control("next", cp + 1, cp = total, FALSE)>>

\* class pagination-btn: the Previous, Next and page-number buttons
IsPaginationBtn(c) == c.kind \in {"prev", "num", "next"}

NoEvent == [kind |-> "none", category |-> "", dataPage |-> <<>>]

----------------------------------------------------------------------------
(* The widget as the page runs it *)

\* constructor()
Init ==
    /\ pc = "constructed"
    /\ response = NoResponse
    /\ posts = <<>>
    /\ postsPerPage = DefaultPostsPerPage
    /\ currentPage = 1
    /\ currentCategory = AllCategory
    /\ categoryButtons = <<>>
    /\ cards = <<>>
    /\ pagination = <<>>
    /\ event = NoEvent

\* init(): await this.loadPosts()
LoadPosts ==
    /\ pc = "constructed"
    /\ \E r \in Responses :
          /\ response' = r
          /\ posts' = LoadedPosts(r)
    /\ pc' = "loaded"
    /\ UNCHANGED <<postsPerPage, currentPage, currentCategory,
                   categoryButtons, cards, pagination, event>>

\* init(): renderCategories(); renderPosts(); setupEventListeners().
\* renderCategories throws when getCategories does, and init stops there
InitRender ==
    /\ pc = "loaded"
    /\ IF getCategoriesThrows
       THEN /\ pc' = "crashed"
            /\ UNCHANGED <<categoryButtons, cards, pagination>>
       ELSE /\ pc' = "ready"
            /\ categoryButtons' = CategoriesHTML(posts, currentCategory)
            /\ cards' = CardsHTML(posts, currentCategory, postsPerPage, currentPage)
            /\ pagination' = PaginationHTML(currentPage, getTotalPages)
    /\ UNCHANGED <<response, posts, postsPerPage, currentPage, currentCategory, event>>

\* variant of CategoryClickOn without this.currentPage = 1
CategoryClickKeepsPage(b) ==
    LET c == categoryButtons[b].category
    IN  /\ currentCategory' = c
        /\ currentPage' = currentPage
        /\ categoryButtons' = CategoriesHTML(posts, c)
        /\ cards' = CardsHTML(posts, c, postsPerPage, currentPage)
        /\ pagination' = PaginationHTML(currentPage, TotalPagesOf(posts, c, postsPerPage))
        /\ event' = [kind |-> "category", category |-> c, dataPage |-> <<>>]

\* the click listener on #blog-categories, for a click on button b
CategoryClickOn(b) ==
    LET c == categoryButtons[b].category
    IN  /\ currentCategory' = c
        /\ currentPage' = 1
        /\ categoryButtons' = CategoriesHTML(posts, c)
        /\ cards' = CardsHTML(posts, c, postsPerPage, 1)
        /\ pagination' = PaginationHTML(1, TotalPagesOf(posts, c, postsPerPage))
        /\ event' = [kind |-> "category", category |-> c, dataPage |-> <<>>]

CategoryClick ==
    /\ pc = "ready"
    /\ \E b \in DOMAIN categoryButtons : CategoryClickOn(b)
    /\ UNCHANGED <<pc, response, posts, postsPerPage>>

\* the click listener on #blog-pagination, for a click on control b
PaginationClickOn(b) ==
    LET target == pagination[b]
        page   == parseInt(target.dataPage)
    IN  /\ IsPaginationBtn(target)
        /\ ~target.disabled
        /\ currentPage' = page
        /\ cards' = CardsHTML(posts, currentCategory, postsPerPage, page)
        /\ pagination' = PaginationHTML(page, getTotalPages)
        /\ event' = [kind |-> "page", category |-> "", dataPage |-> target.dataPage]

PaginationClick ==
    /\ pc = "ready"
    /\ \E b \in DOMAIN pagination : PaginationClickOn(b)
    /\ UNCHANGED <<pc, response, posts, postsPerPage, currentCategory, categoryButtons>>

Next == LoadPosts \/ InitRender \/ CategoryClick \/ PaginationClick

Spec == Init /\ [][Next]_vars

----------------------------------------------------------------------------
(* The query and render methods as functions of the fields *)

CategoryInputs == Categories \cup {"unlisted"}

\* the fields of a loaded BlogManager, drawn from bounded sets
InitFn ==
    /\ pc = "script"
    /\ \E n \in 0..MaxFnPosts, m \in Patterns :
          /\ response = [kind |-> "ok", posts |-> FamilyManifest(n, m)]
          /\ posts = LoadedPosts(response)
    /\ postsPerPage \in 1..MaxPageSize
    /\ currentPage \in 1..MaxPageInput
    /\ currentCategory \in CategoryInputs
    /\ categoryButtons = <<>>
    /\ cards = <<>>
    /\ pagination = <<>>
    /\ event = NoEvent

\* renderCategories()
FnRenderCategories ==
    /\ pc' = "renderCategories"
    /\ categoryButtons' = CategoriesHTML(posts, currentCategory)
    /\ UNCHANGED <<response, posts, postsPerPage, currentPage, currentCategory,
                   cards, pagination, event>>

\* renderPosts(), which ends with renderPagination() on both of its paths
FnRenderPosts ==
    /\ pc' = "renderPosts"
    /\ cards' = CardsHTML(posts, currentCategory, postsPerPage, currentPage)
    /\ pagination' = PaginationHTML(currentPage, getTotalPages)
    /\ UNCHANGED <<response, posts, postsPerPage, currentPage, currentCategory,
                   categoryButtons, event>>

\* renderPagination()
FnRenderPagination ==
    /\ pc' = "renderPagination"
    /\ pagination' = PaginationHTML(currentPage, getTotalPages)
    /\ UNCHANGED <<response, posts, postsPerPage, currentPage, currentCategory,
                   categoryButtons, cards, event>>

NextFn == FnRenderCategories \/ FnRenderPosts \/ FnRenderPagination

SpecFn == InitFn /\ [][NextFn]_vars

----------------------------------------------------------------------------
(* Properties *)

\* the failures of the load: the fetch rejects, the status is not a success,
\* or the payload does not have the shape { posts: [post object, ...] }
LoadFailure(r) ==
    \/ r.kind \in FailureKinds
    \/ r.kind = "ok" /\ HasNull(r.posts)

\* C1: whenever the manifest fetch rejects, the response has a non-success
\* status or the payload cannot be parsed into the expected shape, loadPosts
\* completes with posts equal to the empty sequence and getCategories()
\* afterwards returns exactly ["all"].
C1_LoadFailureGivesEmptyPosts ==
    (pc # "constructed" /\ LoadFailure(response)) =>
        /\ posts = <<>>
        /\ ~getCategoriesThrows
        /\ getCategories = <<"all">>

\* C2: every category-selected action sets currentCategory to the selected
\* value and leaves currentPage equal to 1, whatever both were before; the
\* post set is left unchanged.
C2_CategorySelectedResetsPage ==
    [][event'.kind = "category" =>
          /\ currentCategory' = event'.category
          /\ currentPage' = 1
          /\ posts' = posts]_vars

\* a category other than the shown one was selected while the unfiltered list
\* has several pages
C2_Witness ==
    /\ pc = "ready"
    /\ event.kind = "category"
    /\ currentCategory = "news"
    /\ currentPage = 1
    /\ TotalPagesOf(posts, AllCategory, postsPerPage) >= 3
    /\ getTotalPages = 1

RECURSIVE ConcatPages(_, _, _, _, _)
ConcatPages(ps, cat, pp, from, to) ==
    IF from > to THEN <<>>
    ELSE PaginatedPostsOf(ps, cat, pp, from) \o ConcatPages(ps, cat, pp, from + 1, to)

\* C3: each page returned by getPaginatedPosts() holds at most postsPerPage
\* items, and the pages for currentPage = 1..getTotalPages(), concatenated in
\* page order, are exactly getFilteredPosts(); 7 posts with page size 6 give 6
\* items on page 1, 1 item on page 2 and 2 pages. The rendered cards are those
\* of the current page.
C3_PagesPartitionFilteredPosts ==
    /\ \A p \in 1..MaxPageInput :
          Len(PaginatedPostsOf(posts, currentCategory, postsPerPage, p)) <= postsPerPage
    /\ ConcatPages(posts, currentCategory, postsPerPage, 1, getTotalPages) = getFilteredPosts
    /\ (Len(getFilteredPosts) = 7 /\ postsPerPage = 6) =>
          /\ Len(PaginatedPostsOf(posts, currentCategory, postsPerPage, 1)) = 6
          /\ Len(PaginatedPostsOf(posts, currentCategory, postsPerPage, 2)) = 1
          /\ getTotalPages = 2
    /\ pc = "renderPosts" =>
          /\ Len(cards) <= postsPerPage
          /\ cards = [i \in DOMAIN getPaginatedPosts |-> getPaginatedPosts[i].slug]

\* page 2 of 7 posts at page size 6 has been rendered: one card
C3_Witness ==
    /\ pc = "renderPosts"
    /\ Len(getFilteredPosts) = 7
    /\ postsPerPage = 6
    /\ currentPage = 2
    /\ getTotalPages = 2
    /\ Len(cards) = 1

\* the first index of posts that carries category c
FirstSeen(c) == CHOOSE i \in DOMAIN posts : posts[i].category = c /\
                    \A j \in 1..(i - 1) : posts[j].category # c

\* C4: getCategories() returns a sequence whose first element is "all" and
\* which contains no duplicate entries; the remaining entries are the distinct
\* categories of the posts in first-seen order.
C4_CategoriesAllFirstNoDuplicates ==
    ~getCategoriesThrows =>
        LET cs   == getCategories
            rest == Tail(cs)
        IN  /\ cs[1] = "all"
            /\ \A i, j \in DOMAIN cs : i # j => cs[i] # cs[j]
            /\ {rest[i] : i \in DOMAIN rest} = {posts[i].category : i \in DOMAIN posts}
            /\ \A i, j \in DOMAIN rest : i < j => FirstSeen(rest[i]) < FirstSeen(rest[j])

\* renderPosts or renderPagination has written #blog-pagination for the fields
PaginationRendered == pc \in {"renderPosts", "renderPagination"}

\* the page-number controls: what lies between Previous and Next, a page button
\* as its page number and an ellipsis as 0
WindowTokens ==
    LET inner == SubSeq(pagination, 2, Len(pagination) - 1)
    IN  [k \in DOMAIN inner |->
            IF inner[k].kind = "num" THEN parseInt(inner[k].dataPage) ELSE 0]

IsShown(i, cp, total) == i = 1 \/ i = total \/ (cp - 1 <= i /\ i <= cp + 1)

IsGapMark(i, cp, total) == ~IsShown(i, cp, total) /\ (i = cp - 2 \/ i = cp + 2)

\* the window the inclusion rules describe, for i ascending
ExpectedTokens(cp, total) ==
    LET S     == {i \in 1..total : IsShown(i, cp, total) \/ IsGapMark(i, cp, total)}
        at(k) == CHOOSE i \in S : Cardinality({j \in S : j <= i}) = k
    IN  [k \in 1..Cardinality(S) |-> IF IsShown(at(k), cp, total) THEN at(k) ELSE 0]

\* C5: for totalPages >= 2 and currentPage in 1..totalPages the page-number
\* controls are, for i ascending: a page button for i exactly when i = 1,
\* i = totalPages or currentPage-1 <= i <= currentPage+1; otherwise an ellipsis
\* exactly when i = currentPage-2 or i = currentPage+2; otherwise nothing.
\* currentPage = 5 with 10 pages yields [1, ellipsis, 4, 5, 6, ellipsis, 10].
C5_PaginationWindowRules ==
    (PaginationRendered /\ getTotalPages >= 2 /\ currentPage \in 1..getTotalPages) =>
        /\ pagination[1].kind = "prev"
        /\ pagination[Len(pagination)].kind = "next"
        /\ \A k \in 2..(Len(pagination) - 1) : pagination[k].kind \in {"num", "ellipsis"}
        /\ WindowTokens = ExpectedTokens(currentPage, getTotalPages)
        /\ (currentPage = 5 /\ getTotalPages = 10) =>
               WindowTokens = <<1, 0, 4, 5, 6, 0, 10>>

\* page 5 of 10 has been rendered
C5_Witness ==
    /\ PaginationRendered
    /\ currentPage = 5
    /\ getTotalPages = 10
    /\ WindowTokens = <<1, 0, 4, 5, 6, 0, 10>>

\* C6: getTotalPages() returns 0 when the filtered post set is empty and
\* ceil(n / postsPerPage) when it has n >= 1 posts; pagination controls are
\* produced only when this value is at least 2.
C6_TotalPagesIsCeiling ==
    LET n == Len(getFilteredPosts)
    IN  /\ n = 0 => getTotalPages = 0
        /\ n >= 1 => /\ getTotalPages * postsPerPage >= n
                      /\ (getTotalPages - 1) * postsPerPage < n
        /\ PaginationRendered => (pagination # <<>> <=> getTotalPages >= 2)

\* a last page that is not full: the quotient is rounded up to one page, and
\* no controls are produced
C6_Witness ==
    /\ pc = "renderPagination"
    /\ Len(getFilteredPosts) = 5
    /\ postsPerPage = 6
    /\ getTotalPages = 1
    /\ pagination = <<>>

\* the indices of posts whose category is currentCategory
MatchingIndices == {i \in DOMAIN posts : posts[i].category = currentCategory}

\* C7: getFilteredPosts() returns the full post sequence when currentCategory
\* is "all"; for any other currentCategory it returns exactly the posts whose
\* category equals currentCategory, in their relative order in posts, so a
\* category carried by no post yields the empty sequence.
C7_FilterByCategory ==
    LET f == getFilteredPosts
    IN  /\ currentCategory = "all" => f = posts
        /\ currentCategory # "all" =>
              /\ Len(f) = Cardinality(MatchingIndices)
              /\ \A k \in DOMAIN f :
                    \E i \in MatchingIndices :
                       /\ Cardinality({j \in MatchingIndices : j <= i}) = k
                       /\ f[k] = posts[i]
              /\ MatchingIndices = {} => f = <<>>

\* a filter that keeps some posts and drops others has been rendered
C7_Witness ==
    /\ pc = "renderPosts"
    /\ currentCategory = "news"
    /\ Len(getFilteredPosts) = 2
    /\ Len(posts) = 5
    /\ cards = <<getFilteredPosts[1].slug, getFilteredPosts[2].slug>>
    /\ getFilteredPosts[1] = posts[2]

\* order of the ISO date strings: by year, then month, then day
DateGeq(a, b) ==
    \/ a[1] > b[1]
    \/ a[1] = b[1] /\ a[2] > b[2]
    \/ a[1] = b[1] /\ a[2] = b[2] /\ a[3] >= b[3]

\* the manifest is one of well-formed post objects and loadPosts has returned
LoadedWellFormed == pc # "constructed" /\ response.kind = "ok" /\ ~HasNull(response.posts)

\* C8: after a successful load, posts is a permutation of the manifest's posts
\* ordered by date descending, and posts with equal dates keep their manifest
\* order (a post's slug is its position in the manifest); posts dated
\* 2024-01-01 and 2024-06-01 load with the June post first.
C8_LoadSortsByDateDescending ==
    LoadedWellFormed =>
        LET m == response.posts
        IN  /\ Len(posts) = Len(m)
            /\ {posts[i] : i \in DOMAIN posts} = {m[i] : i \in DOMAIN m}
            /\ \A i \in 1..(Len(posts) - 1) : DateGeq(posts[i].date, posts[i + 1].date)
            /\ \A i, j \in DOMAIN posts :
                  (i < j /\ posts[i].date = posts[j].date) => posts[i].slug < posts[j].slug
            /\ (Len(m) = 2 /\ m[1].date = <<2024, 1, 1>> /\ m[2].date = <<2024, 6, 1>>) =>
                  posts[1] = m[2]

\* a January post, a June post and a second January post were loaded: June
\* comes first and the January posts keep their order
C8_Witness ==
    /\ pc = "ready"
    /\ Len(response.posts) = 3
    /\ response.posts[1].date = <<2024, 1, 1>>
    /\ response.posts[2].date = <<2024, 6, 1>>
    /\ response.posts[3].date = <<2024, 1, 1>>
    /\ posts = <<response.posts[2], response.posts[1], response.posts[3]>>

\* the positions of the page buttons in the window
NumberPositions == {k \in DOMAIN WindowTokens : WindowTokens[k] # 0}

\* C9: the pagination window has one ellipsis per gap of skipped pages:
\* between two successive displayed page numbers there is exactly one ellipsis
\* when they are not consecutive integers and none when they are, so the
\* window never holds two adjacent ellipses and holds at most two in total.
C9_OneEllipsisPerGap ==
    (PaginationRendered /\ getTotalPages >= 2 /\ currentPage \in 1..getTotalPages) =>
        LET t == WindowTokens
        IN  /\ t[1] = 1
            /\ t[Len(t)] = getTotalPages
            /\ \A a, b \in NumberPositions :
                  (a < b /\ \A k \in (a + 1)..(b - 1) : k \notin NumberPositions) =>
                      /\ t[a] < t[b]
                      /\ b - a = IF t[b] = t[a] + 1 THEN 1 ELSE 2
            /\ \A k \in 1..(Len(t) - 1) : ~(t[k] = 0 /\ t[k + 1] = 0)
            /\ Cardinality({k \in DOMAIN t : t[k] = 0}) <= 2

\* a window with a gap of several skipped pages on each side
C9_Witness ==
    /\ PaginationRendered
    /\ currentPage = 5
    /\ getTotalPages = 9
    /\ Len(WindowTokens) = 7
    /\ WindowTokens[2] = 0
    /\ WindowTokens[6] = 0

\* C10: once init has completed, and after any sequence of clicks on the
\* rendered controls, 1 <= currentPage <= max(1, getTotalPages()).
C10_CurrentPageInRange ==
    pc = "ready" =>
        /\ currentPage \in Int
        /\ 1 <= currentPage
        /\ currentPage <= Max(1, getTotalPages)

\* the last of six pages was reached through the pagination buttons
C10_Witness ==
    /\ pc = "ready"
    /\ event.kind = "page"
    /\ getTotalPages = 6
    /\ currentPage = 6
    /\ pagination[Len(pagination)].disabled

====
